---- MODULE Spec2Model ----
(***************************************************************************)
(* A model of the chart engine of pyqtchart: the crosshair axes and their  *)
(* link cascade (src/chart/advanced_chart.py), the per-frame paint pass of *)
(* a chart surface (src/BarChart.py) and the composite widget that stacks  *)
(* surfaces (src/chart/advanced_chart.py, src/AdvancedBarChart.py).        *)
(*                                                                         *)
(* Numbers that the program holds as Python floats are exact rationals     *)
(* here: a pair <<n, d>> with d > 0 and gcd(n, d) = 1.                     *)
(***************************************************************************)
EXTENDS Integers, Sequences, FiniteSets, TLC

(***************************************************************************)
(* Rational arithmetic.                                                    *)
(***************************************************************************)
Abs(n) == IF n < 0 THEN -n ELSE n

RECURSIVE GCD(_, _)
GCD(a, b) == IF b = 0 THEN a ELSE GCD(b, a % b)

Norm(n, d) ==
    LET g == GCD(Abs(n), Abs(d))
        s == IF d < 0 THEN -1 ELSE 1
    IN  <<(s * n) \div g, (s * d) \div g>>

R(n) == <<n, 1>>
RAdd(p, q) == Norm(p[1] * q[2] + q[1] * p[2], p[2] * q[2])
RSub(p, q) == Norm(p[1] * q[2] - q[1] * p[2], p[2] * q[2])
RMul(p, q) == Norm(p[1] * q[1], p[2] * q[2])
RDiv(p, q) == Norm(p[1] * q[2], p[2] * q[1])
RNeg(p) == <<-p[1], p[2]>>
RLess(p, q) == p[1] * q[2] < q[1] * p[2]
RMax(p, q) == IF RLess(p, q) THEN q ELSE p
RIsZero(p) == p[1] = 0

\* Python's int(x) on a float: truncation toward zero.
PyInt(p) == IF p[1] >= 0 THEN p[1] \div p[2] ELSE -((-p[1]) \div p[2])

Range(s) == {s[i] : i \in 1..Len(s)}

(***************************************************************************)
(* The objects.  Six crosshair axes exist from the start, one of each      *)
(* class the program can construct plus three more plain X axes; two chart *)
(* surfaces exist, each with a ValueAxisX and a ValueAxisY made for it.     *)
(***************************************************************************)
Axes == {1, 2, 3, 4, 5, 6}
Charts == {1, 2}

\* the ValueAxisX and ValueAxisY that create_default_axis makes for chart c
DefaultAxisX(c) == 10 * c + 1
DefaultAxisY(c) == 10 * c + 2
ValueAxes == {DefaultAxisX(c) : c \in Charts} \cup {DefaultAxisY(c) : c \in Charts}
AllAxes == Axes \cup ValueAxes

\* CrossHairAxisX, CrossHairBarAxisX, CrossHairAxisY, ValueAxisX, ValueAxisY
Class(a) ==
    CASE a = 1 -> "CrossHairAxisX"
      [] a = 2 -> "CrossHairBarAxisX"
      [] a = 3 -> "CrossHairAxisX"
      [] a = 4 -> "CrossHairAxisY"
      [] a \in {5, 6} -> "CrossHairAxisX"
      [] a \in {DefaultAxisX(c) : c \in Charts} -> "ValueAxisX"
      [] OTHER -> "ValueAxisY"

\* the orientation each constructor hands to AxisBase.__init__
orientation(a) ==
    IF Class(a) \in {"CrossHairAxisY", "ValueAxisY"} THEN "VERTICAL" ELSE "HORIZONTAL"

\* The values a caller hands to _set_drawer_value.
SetValues == {R(-1), R(0)}
\* The drawers add_drawer is called with: what has_data() answers and the Y
\* range prepare_draw reports.
DrawerKinds ==
    { [has_data |-> FALSE, y_low |-> 0, y_high |-> 0],
      [has_data |-> TRUE, y_low |-> -2, y_high |-> 3],
      [has_data |-> TRUE, y_low |-> 1, y_high |-> 10] }
\* The ranges set_x_range is called with.
XRanges == {<<0, 10>>, <<0, 0>>, <<8, 3>>}
\* The widget sizes (width, height) a resize gives a surface.
WidgetSizes == {<<640, 480>>, <<40, 140>>}
\* The pointer positions of mouse-move events.
PointerX == {100, 152}
PointerY == {80}

\* most links that link_to calls may create
MaxLinks == 3
\* deepest nesting of _set_drawer_value calls the model follows
MaxDepth == 12
\* most drawers on one surface
MaxDrawers == 2
\* most entries of one surface's axis list
MaxAxisList == 3
\* most entries of the axis list of a surface whose wrapper makes crosshairs
MaxCreatedAxisList == 4
MaxWrapperLinks == 1
\* links in the link graph of the cascade model
MaxCascadeLinks == 5
\* scroll_x is followed while the ranges stay this near to the initial one
MaxShift == 2

\* the default Y range: "y_low, y_high = 0, 1" in _prepare_painting, which is
\* also the range a new DrawConfig holds
DefaultYLow == 0
DefaultYHigh == 1

\* BarChartWidget.__init__: self.y_scale = 1.1
y_scale == <<11, 10>>

VARIABLES
    drawer_value,   \* axis -> CrossHairAxis._drawer_value
    links,          \* axis -> CrossHairAxis._links, a sequence of axes
    last_config,    \* axis -> CrossHairAxis._last_config: <<>> or <<config>>
    connected,      \* axis -> the charts whose wrapper's on_cross_hair_updated
                    \* is connected to the axis's 'updated' signal, in order
    linked,         \* the pairs <<A, B>> for which A.link_to(B) returned
    stack,          \* the nested _sync_all_linked loops: <<[axis, idx], ...>>
    pending,        \* the calls a running mouse-move handler still has to make
    emitted,        \* axis -> 'updated' emissions in the current top-level call
    requested,      \* chart -> update() calls in the current top-level call
    top,            \* the current (or last) top-level value update: its axis
                    \* and argument, the axes that already held what they
                    \* store for that argument, and whether it repeats the
                    \* call before it
    axis_visible,   \* axis -> AxisBase.axis_visible
    grid_visible,   \* axis -> AxisBase.grid_visible
    tick_visible,   \* axis -> AxisBase.tick_visible
    paddings,       \* chart -> BarChartWidget.paddings
    size,           \* chart -> (width, height) of the widget's rect()
    axis_list,      \* chart -> BarChartWidget._axis_list
    drawers,        \* chart -> BarChartWidget._drawers
    draw_config,    \* chart -> BarChartWidget._draw_config
    edge_visible,   \* chart -> BarChartWidget.plot_area_edge_visible
    painting,       \* chart -> a paintEvent of the chart is running
    frame,          \* chart -> the copy of the config a running paintEvent
                    \* took (a new config when none is running)
    in_hand,        \* chart -> <<the copy as _prepare_painting left it>>, <<>>
                    \* before that and when no paintEvent is running
    log,            \* chart -> the painter and axis calls of the last pass
    pass,           \* chart -> what the last pass computed, and whether it
                    \* repeated a pass with nothing changed in between
    sub_wrappers,   \* AdvancedChartWidget._sub_wrappers
    mouse_handler   \* chart -> index of the wrapper its mouseMoveEvent feeds, or 0

cross_vars == <<drawer_value, links, last_config, connected, linked, stack,
                pending, emitted, requested, top>>
flag_vars == <<axis_visible, grid_visible, tick_visible>>
chart_vars == <<paddings, size, axis_list, drawers, draw_config, edge_visible,
                painting, frame, in_hand, log, pass>>
composite_vars == <<sub_wrappers, mouse_handler>>
vars == <<cross_vars, flag_vars, chart_vars, composite_vars>>

NoTop ==
    [kind |-> "none", axis |-> 0, arg |-> R(0), pos |-> 0, applied |-> FALSE,
     held |-> {}, rep |-> FALSE]
NoPass ==
    [status |-> "none", pre_scale |-> <<>>, config |-> <<>>, cache |-> <<>>,
     again |-> FALSE]
NoEmitted == [a \in Axes |-> 0]
NoRequested == [c \in Charts |-> 0]

\* ExtraDrawConfig.__init__ and BarChartWidget.__init__: begin = 0, end = 10
InitConfig ==
    [begin |-> 0, end |-> 10, y_low |-> R(DefaultYLow), y_high |-> R(DefaultYHigh),
     has_showing_data |-> 0, drawing_cache |-> <<>>]

\* CrossHairAxis.__init__, BarChartWidget.__init__, AdvancedChartWidget.__init__
Init ==
    /\ drawer_value = [a \in Axes |-> R(0)]
    /\ links = [a \in Axes |-> <<>>]
    /\ last_config = [a \in Axes |-> <<>>]
    /\ connected = [a \in Axes |-> <<>>]
    /\ linked = {}
    /\ stack = <<>>
    /\ pending = <<>>
    /\ emitted = NoEmitted
    /\ requested = NoRequested
    /\ top = NoTop
    /\ axis_visible = [a \in AllAxes |-> TRUE]
    /\ grid_visible = [a \in AllAxes |-> TRUE]
    /\ tick_visible = [a \in AllAxes |-> TRUE]
    /\ paddings = [c \in Charts |-> <<20, 20, 20, 20>>]
    /\ size = [c \in Charts |-> <<640, 480>>]
    /\ axis_list = [c \in Charts |-> <<>>]
    /\ drawers = [c \in Charts |-> <<>>]
    /\ draw_config = [c \in Charts |-> InitConfig]
    /\ edge_visible = [c \in Charts |-> TRUE]
    /\ painting = [c \in Charts |-> FALSE]
    /\ frame = [c \in Charts |-> InitConfig]
    /\ in_hand = [c \in Charts |-> <<>>]
    /\ log = [c \in Charts |-> <<>>]
    /\ pass = [c \in Charts |-> NoPass]
    /\ sub_wrappers = <<>>
    /\ mouse_handler = [c \in Charts |-> 0]

\* no value update is running
Idle == stack = <<>>
\* no handler is running: a new top-level call can start
Quiet == stack = <<>> /\ pending = <<>> /\ \A c \in Charts : ~painting[c]

(***************************************************************************)
(* The crosshair axes (src/chart/advanced_chart.py).                       *)
(***************************************************************************)
BarSnap_noint(value) == RAdd(value, <<1, 2>>)

\* CrossHairBarAxisX._set_drawer_value: value = int(value) + 0.5
BarSnap(value) == RAdd(R(PyInt(value)), <<1, 2>>)

\* the value an axis of this class stores for an incoming value
StoredValue(a, value) ==
    IF Class(a) = "CrossHairBarAxisX" THEN BarSnap(value) ELSE value

ValueChanged_always(value, current) == TRUE

\* CrossHairAxis._set_drawer_value: if value != self._drawer_value
ValueChanged(value, current) == value # current

Count(s, x) == Cardinality({i \in 1..Len(s) : s[i] = x})

\* self.qobject.updated.emit(): every connected on_cross_hair_updated slot
\* runs and calls chart.update()
Emit(a, em, req) ==
    /\ emitted' = [em EXCEPT ![a] = @ + 1]
    /\ requested' = [c \in Charts |-> req[c] + Count(connected[a], c)]

\* One call a._set_drawer_value(value) up to the start of its
\* _sync_all_linked loop, made with the frames stk on the stack.
set_drawer_value(a, value, stk, em, req) ==
    LET v == StoredValue(a, value) IN
    IF ValueChanged(v, drawer_value[a])
    THEN /\ drawer_value' = [drawer_value EXCEPT ![a] = v]
         /\ Emit(a, em, req)
         /\ stack' = Append(stk, [axis |-> a, idx |-> 1])
    ELSE /\ stack' = stk
         /\ emitted' = em
         /\ requested' = req
         /\ UNCHANGED drawer_value

\* what the model remembers of a top-level call a._set_drawer_value(value)
TopOf(kind, a, value, pos) ==
    [kind |-> kind, axis |-> a, arg |-> value, pos |-> pos, applied |-> TRUE,
     held |-> {x \in Axes : drawer_value[x] = StoredValue(x, value)},
     rep |-> top.kind = kind /\ top.axis = a /\ top.arg = value /\ top.pos = pos
             /\ top.applied]

\* A caller sets the value of axis a: the top-level call.
SetDrawerValue(a, value) ==
    /\ Quiet
    /\ top' = TopOf("set", a, value, 0)
    /\ set_drawer_value(a, value, <<>>, NoEmitted, NoRequested)
    /\ UNCHANGED <<links, last_config, connected, linked, pending>>
    /\ UNCHANGED <<flag_vars, chart_vars, composite_vars>>

more_linked_first_only(f) == f.idx <= 1 /\ f.idx <= Len(links[f.axis])

\* for other in self._links: the loop of frame f has a member left to visit
more_linked(f) == f.idx <= Len(links[f.axis])

\* CrossHairAxis._sync_all_linked: one iteration of the innermost running
\* "for other in self._links" loop, or its end.
SyncStep ==
    /\ ~Idle
    /\ LET f == stack[Len(stack)]
           below == SubSeq(stack, 1, Len(stack) - 1)
       IN  IF ~more_linked(f)
           THEN /\ stack' = below
                /\ UNCHANGED <<drawer_value, emitted, requested>>
           ELSE /\ Len(stack) < MaxDepth
                /\ set_drawer_value(links[f.axis][f.idx], drawer_value[f.axis],
                                    Append(below, [f EXCEPT !.idx = @ + 1]),
                                    emitted, requested)
    /\ UNCHANGED <<links, last_config, connected, linked, pending, top>>
    /\ UNCHANGED <<flag_vars, chart_vars, composite_vars>>

link_to_append(self, target) == [links EXCEPT ![target] = Append(@, self)]

\* CrossHairAxis.link_to: if self not in target._links: target._links.append(self)
link_to(self, target) ==
    IF self \in Range(links[target]) THEN links
    ELSE [links EXCEPT ![target] = Append(@, self)]

TotalLinks ==
    Len(links[1]) + Len(links[2]) + Len(links[3]) + Len(links[4])
        + Len(links[5]) + Len(links[6])

\* a top-level call that is no value update forgets the last value update
Forget(req) ==
    /\ top' = NoTop
    /\ emitted' = NoEmitted
    /\ requested' = req

\* self.link_to(target); the assert stops a call with a different orientation
\* before it changes anything.  The call is remembered in top: applied says
\* that the assert passed, rep that self was in target's list already.
LinkTo(self, target) ==
    /\ Quiet
    /\ IF orientation(target) = orientation(self)
       THEN /\ links' = link_to(self, target)
            /\ linked' = linked \cup {<<self, target>>}
       ELSE UNCHANGED <<links, linked>>
    /\ top' = [NoTop EXCEPT !.kind = "link_to", !.arg = <<self, target>>,
                            !.applied = orientation(target) = orientation(self),
                            !.rep = self \in Range(links[target])]
    /\ emitted' = NoEmitted
    /\ requested' = NoRequested
    /\ UNCHANGED <<drawer_value, last_config, connected, stack, pending>>
    /\ UNCHANGED <<flag_vars, chart_vars, composite_vars>>

(***************************************************************************)
(* QTransform, restricted to what the program builds: a scale and a        *)
(* translation per coordinate.  A point p maps to p * m + d.               *)
(***************************************************************************)
IdentityT == [m11 |-> R(1), m22 |-> R(1), dx |-> R(0), dy |-> R(0)]
FromTranslate(dx, dy) == [m11 |-> R(1), m22 |-> R(1), dx |-> dx, dy |-> dy]
FromScale(sx, sy) == [m11 |-> sx, m22 |-> sy, dx |-> R(0), dy |-> R(0)]
\* QTransform().rotate(180, Qt.XAxis): the flip of the Y coordinate
RotateX180 == [m11 |-> R(1), m22 |-> R(-1), dx |-> R(0), dy |-> R(0)]
\* t * u: first t, then u
TMul(t, u) ==
    [m11 |-> RMul(t.m11, u.m11), m22 |-> RMul(t.m22, u.m22),
     dx |-> RAdd(RMul(t.dx, u.m11), u.dx), dy |-> RAdd(RMul(t.dy, u.m22), u.dy)]
MapX(t, x) == RAdd(RMul(x, t.m11), t.dx)
MapY(t, y) == RAdd(RMul(y, t.m22), t.dy)
\* QTransform.inverted(): (inverse, True), or (identity, False) when singular
Inverted(t) ==
    IF RIsZero(t.m11) \/ RIsZero(t.m22)
    THEN [t |-> IdentityT, invertible |-> FALSE]
    ELSE [t |-> [m11 |-> RDiv(R(1), t.m11), m22 |-> RDiv(R(1), t.m22),
                 dx |-> RNeg(RDiv(t.dx, t.m11)), dy |-> RNeg(RDiv(t.dy, t.m22))],
          invertible |-> TRUE]

\* DrawingCache.ui_x_to_drawer / ui_y_to_drawer: the X and the Y component of
\* ui_transform
ui_x_to_drawer(cache, pos) == MapX(cache.ui_transform, R(pos))
ui_y_to_drawer(cache, pos) == MapY(cache.ui_transform, R(pos))

(***************************************************************************)
(* The chart surface (src/BarChart.py).                                    *)
(***************************************************************************)
scale_from_mid_full(low, high, ratio) ==
    LET mid == RDiv(RAdd(low, high), R(2))
        scaled_range_2 == RMul(RSub(high, low), ratio)
    IN  <<RSub(mid, scaled_range_2), RAdd(mid, scaled_range_2)>>

\* scale_from_mid
scale_from_mid(low, high, ratio) ==
    LET mid == RDiv(RAdd(low, high), R(2))
        scaled_range_2 == RMul(RDiv(RSub(high, low), R(2)), ratio)
    IN  <<RSub(mid, scaled_range_2), RAdd(mid, scaled_range_2)>>

\* Python's truth value of a number
Truthy(n) == n # 0

\* BarChartWidget.plot_area: rect().adjusted(left, top, -right, -bottom)
plot_area(c) ==
    LET p == paddings[c] IN
    [x |-> R(p[1]), y |-> R(p[2]),
     w |-> R(size[c][1] - p[1] - p[3]), h |-> R(size[c][2] - p[2] - p[4])]

\* BarChartWidget._coordinate_transform
coordinate_transform(input, output) ==
    LET rx == RDiv(output.w, input.w)
        ry == RDiv(output.h, input.h)
        t1 == FromTranslate(RNeg(input.x), RNeg(input.y))
        t2 == TMul(t1, FromScale(rx, ry))
    IN  TMul(t2, FromTranslate(output.x, output.y))

\* the QRectF that _prepare_drawing_cache builds from the config
drawer_area(config) ==
    [x |-> R(config.begin), y |-> config.y_low,
     w |-> RMax(R(config.end - config.begin), R(1)),
     h |-> RMax(RSub(config.y_high, config.y_low), R(1))]

drawer_transform_noflip(da, pa) == coordinate_transform(da, pa)

\* the transform that _prepare_drawing_cache composes
drawer_transform(da, pa) ==
    LET t1 == coordinate_transform(da, pa)
        t2 == TMul(t1, FromTranslate(R(0), RNeg(pa.y)))
        t3 == TMul(t2, FromTranslate(R(0), RNeg(pa.h)))
        t4 == TMul(t3, RotateX180)
    IN  TMul(t4, FromTranslate(R(0), pa.y))

\* BarChartWidget._prepare_drawing_cache: the DrawingCache it fills, and
\* whether the division for p2d_w / p2d_h raises ZeroDivisionError
prepare_drawing_cache(c, config) ==
    LET da == drawer_area(config)
        pa == plot_area(c)
        t == drawer_transform(da, pa)
        inv == Inverted(t)
        raises == RIsZero(pa.w) \/ RIsZero(pa.h)
    IN  [drawer_transform |-> t, ui_transform |-> inv.t, invertible |-> inv.invertible,
         drawer_area |-> da, plot_area |-> pa,
         p2d_w |-> IF RIsZero(pa.w) THEN R(0) ELSE RDiv(da.w, pa.w),
         p2d_h |-> IF RIsZero(pa.h) THEN R(0) ELSE RDiv(da.h, pa.h),
         raises |-> raises]

\* DrawerBase.has_data and DrawerBase.prepare_draw
has_data(d) == d.has_data
prepare_draw(d, config) == [config EXCEPT !.y_low = R(d.y_low), !.y_high = R(d.y_high)]

\* [s.prepare_draw(copy(config)) for s in self._drawers if s.has_data()]
preferred_configs(c, config) ==
    LET ds == SelectSeq(drawers[c], has_data)
    IN  [i \in 1..Len(ds) |-> prepare_draw(ds[i], config)]

\* min(preferred_configs, key=lambda c: c.y_low).y_low and the max of y_high
MinYLow(cs) ==
    CHOOSE v \in {cs[i].y_low : i \in 1..Len(cs)} :
        \A w \in {cs[i].y_low : i \in 1..Len(cs)} : ~RLess(w, v)
MaxYHigh(cs) ==
    CHOOSE v \in {cs[i].y_high : i \in 1..Len(cs)} :
        \A w \in {cs[i].y_high : i \in 1..Len(cs)} : ~RLess(v, w)

\* _prepare_painting: if has_showing_data and self._drawers
ResolvesYRange(c, config) ==
    Truthy(config.end - config.begin) /\ drawers[c] # <<>>

pre_scale_persisted(c, config) == <<config.y_low, config.y_high>>

\* _prepare_painting: the Y range before scaling, <<>> when none is computed
pre_scale(c, config) ==
    IF ResolvesYRange(c, config)
    THEN LET cs == preferred_configs(c, config)
         IN  IF cs # <<>> THEN <<MinYLow(cs), MaxYHigh(cs)>> ELSE <<R(0), R(1)>>
    ELSE <<>>

\* BarChartWidget._prepare_painting, up to the call of _prepare_drawing_cache
prepare_painting(c, config) ==
    LET c1 == [config EXCEPT !.has_showing_data = config.end - config.begin]
        pre == pre_scale(c, c1)
    IN  IF pre # <<>>
        THEN LET y == scale_from_mid(pre[1], pre[2], y_scale)
             IN  [c1 EXCEPT !.y_low = y[1], !.y_high = y[2]]
        ELSE c1

\* A call the pass makes on the painter, on axis id or on drawer id, and the
\* config object it is handed: the working config of the pass itself, a copy
\* of it, or none.
Ev(op, id) ==
    [op |-> op, id |-> id,
     given |-> CASE op \in {"prepare_draw_grids", "prepare_draw_ticks"} -> "config"
                 [] op \in {"prepare_draw_axis", "draw_grids", "draw_ticks", "draw"}
                        -> "copy"
                 [] OTHER -> "none"]

\* BarChartWidget._should_paint_axis
should_paint_axis(a) == axis_visible[a] /\ (tick_visible[a] \/ grid_visible[a])
GridVisible(a) == grid_visible[a]
TickVisible(a) == tick_visible[a]

\* axises = [i for i in self._axis_list if i and self._should_paint_axis(i)]
axises(c) == SelectSeq(axis_list[c], should_paint_axis)

EventsFor(op, s) == [i \in 1..Len(s) |-> Ev(op, s[i])]

\* BarChartWidget._paint_axis: the calls it makes on the axes, in order; in
\* the grid loop and in the tick loop each axis is prepared with the working
\* config and then drawn with a copy
paint_axis(c, config) ==
    LET ax == axises(c)
        Both(prep, draw, s) ==
            [i \in 1..(2 * Len(s)) |->
                IF i % 2 = 1 THEN Ev(prep, s[(i + 1) \div 2])
                ELSE Ev(draw, s[i \div 2])]
        prepared == EventsFor("prepare_draw_axis", ax)
        grids == IF Truthy(config.has_showing_data)
                 THEN Both("prepare_draw_grids", "draw_grids",
                           SelectSeq(ax, GridVisible))
                 ELSE <<>>
        ticks == IF Truthy(config.has_showing_data)
                 THEN Both("prepare_draw_ticks", "draw_ticks",
                           SelectSeq(ax, TickVisible))
                 ELSE <<>>
    IN  prepared \o grids \o ticks

\* AxisBase.prepare_draw_grids and AxisBase.prepare_draw_ticks, which
\* CrossHairAxis hands on to its underlying axis: the config as the call
\* leaves it.  A preparation step lets the axis cache geometry of its own and
\* writes nothing to the config.
axis_prepare(a, config) == config

\* the working config as _paint_axis leaves it: it has gone through the
\* preparation of every grid-visible and then of every tick-visible axis
axis_config(c, config) ==
    LET RECURSIVE Through(_, _)
        Through(s, cfg) ==
            IF s = <<>> THEN cfg ELSE Through(Tail(s), axis_prepare(Head(s), cfg))
        ax == axises(c)
    IN  IF Truthy(config.has_showing_data)
        THEN Through(SelectSeq(ax, TickVisible),
                     Through(SelectSeq(ax, GridVisible), config))
        ELSE config

RECURSIVE DrawerLoop(_, _)
\* for i, s in enumerate(self._drawers): if s.has_data(): switch; draw
DrawerLoop(ds, i) ==
    IF i > Len(ds) THEN <<>>
    ELSE (IF has_data(ds[i])
          THEN <<Ev("setWorldTransform", i), Ev("draw", i)>> ELSE <<>>)
         \o DrawerLoop(ds, i + 1)

paint_drawers_noswitch(c, config) ==
    IF Truthy(config.has_showing_data) THEN DrawerLoop(drawers[c], 1) ELSE <<>>

\* BarChartWidget._paint_drawers
paint_drawers(c, config) ==
    IF Truthy(config.has_showing_data)
    THEN DrawerLoop(drawers[c], 1) \o <<Ev("setWorldMatrixEnabled(False)", 0)>>
    ELSE <<>>

\* BarChartWidget._paint_box_edge
paint_box_edge(c) == IF edge_visible[c] THEN <<Ev("border", 0)>> ELSE <<>>

\* BarChartWidget.paintEvent: what it draws, in order
paint_events(c, config) ==
    <<Ev("clear", 0)>> \o paint_axis(c, config) \o paint_drawers(c, config)
        \o paint_box_edge(c)

\* a call of a surface's method from outside: it forgets the last pass
Touch(c) ==
    /\ log' = [log EXCEPT ![c] = <<>>]
    /\ pass' = [pass EXCEPT ![c] = NoPass]

Only(c) == [x \in Charts |-> IF x = c THEN 1 ELSE 0]

\* BarChartWidget.add_drawer
AddDrawer(c, d) ==
    /\ Quiet
    /\ Len(drawers[c]) < MaxDrawers
    /\ drawers' = [drawers EXCEPT ![c] = Append(@, d)]
    /\ Touch(c)
    /\ Forget(Only(c))
    /\ UNCHANGED <<drawer_value, links, last_config, connected, linked, stack, pending>>
    /\ UNCHANGED <<paddings, size, axis_list, draw_config, edge_visible,
                   painting, frame, in_hand>>
    /\ UNCHANGED <<flag_vars, composite_vars>>

\* BarChartWidget.set_x_range; a drawer or an axis may call it while the
\* surface is painted
SetXRange(c, begin, end) ==
    /\ Idle /\ pending = <<>>
    /\ draw_config' = [draw_config EXCEPT ![c].begin = begin, ![c].end = end]
    /\ Touch(c)
    /\ Forget(Only(c))
    /\ UNCHANGED <<drawer_value, links, last_config, connected, linked, stack, pending>>
    /\ UNCHANGED <<paddings, size, axis_list, drawers, edge_visible,
                   painting, frame, in_hand>>
    /\ UNCHANGED <<flag_vars, composite_vars>>

\* BarChartWidget.add_axis
add_axis(c, new) == [axis_list EXCEPT ![c] = @ \o new]

AddAxis(c, a) ==
    /\ Quiet
    /\ Len(axis_list[c]) < MaxAxisList
    /\ axis_list' = add_axis(c, <<a>>)
    /\ Touch(c)
    /\ Forget(NoRequested)
    /\ UNCHANGED <<drawer_value, links, last_config, connected, linked, stack, pending>>
    /\ UNCHANGED <<paddings, size, drawers, draw_config, edge_visible,
                   painting, frame, in_hand>>
    /\ UNCHANGED <<flag_vars, composite_vars>>

\* BarChartWidget.create_default_axis: the assert stops the call on a surface
\* that has an axis, else a ValueAxisX and a ValueAxisY are added in one call
CreateDefaultAxis(c) ==
    /\ Quiet
    /\ axis_list' = IF Len(axis_list[c]) = 0
                    THEN add_axis(c, <<DefaultAxisX(c), DefaultAxisY(c)>>)
                    ELSE axis_list
    /\ Touch(c)
    /\ Forget(NoRequested)
    /\ UNCHANGED <<drawer_value, links, last_config, connected, linked, stack, pending>>
    /\ UNCHANGED <<paddings, size, drawers, draw_config, edge_visible,
                   painting, frame, in_hand>>
    /\ UNCHANGED <<flag_vars, composite_vars>>

Registered(a) == \E c \in Charts : a \in Range(axis_list[c])

\* a caller assigns a visibility flag of an axis on a surface
SetGridVisible(a, v) ==
    /\ Quiet /\ Registered(a)
    /\ grid_visible' = [grid_visible EXCEPT ![a] = v]
    /\ log' = [c \in Charts |-> <<>>]
    /\ pass' = [c \in Charts |-> NoPass]
    /\ Forget(NoRequested)
    /\ UNCHANGED <<drawer_value, links, last_config, connected, linked, stack, pending>>
    /\ UNCHANGED <<paddings, size, axis_list, drawers, draw_config, edge_visible,
                   painting, frame, in_hand>>
    /\ UNCHANGED <<axis_visible, tick_visible, composite_vars>>

SetTickVisible(a, v) ==
    /\ Quiet /\ Registered(a)
    /\ tick_visible' = [tick_visible EXCEPT ![a] = v]
    /\ log' = [c \in Charts |-> <<>>]
    /\ pass' = [c \in Charts |-> NoPass]
    /\ Forget(NoRequested)
    /\ UNCHANGED <<drawer_value, links, last_config, connected, linked, stack, pending>>
    /\ UNCHANGED <<paddings, size, axis_list, drawers, draw_config, edge_visible,
                   painting, frame, in_hand>>
    /\ UNCHANGED <<axis_visible, grid_visible, composite_vars>>

SetAxisVisible(a, v) ==
    /\ Quiet /\ Registered(a)
    /\ axis_visible' = [axis_visible EXCEPT ![a] = v]
    /\ log' = [c \in Charts |-> <<>>]
    /\ pass' = [c \in Charts |-> NoPass]
    /\ Forget(NoRequested)
    /\ UNCHANGED <<drawer_value, links, last_config, connected, linked, stack, pending>>
    /\ UNCHANGED <<paddings, size, axis_list, drawers, draw_config, edge_visible,
                   painting, frame, in_hand>>
    /\ UNCHANGED <<grid_visible, tick_visible, composite_vars>>

\* the toolkit resizes the widget
Resize(c, sz) ==
    /\ Quiet
    /\ size' = [size EXCEPT ![c] = sz]
    /\ Touch(c)
    /\ Forget(NoRequested)
    /\ UNCHANGED <<drawer_value, links, last_config, connected, linked, stack, pending>>
    /\ UNCHANGED <<paddings, axis_list, drawers, draw_config, edge_visible,
                   painting, frame, in_hand>>
    /\ UNCHANGED <<flag_vars, composite_vars>>

\* BarChartWidget.paintEvent, its first statement: config = copy(self._draw_config)
PaintBegin(c) ==
    /\ Quiet
    /\ painting' = [painting EXCEPT ![c] = TRUE]
    /\ frame' = [frame EXCEPT ![c] = draw_config[c]]
    /\ Forget(NoRequested)
    /\ UNCHANGED <<drawer_value, links, last_config, connected, linked, stack, pending>>
    /\ UNCHANGED <<paddings, size, axis_list, drawers, draw_config, edge_visible>>
    /\ UNCHANGED <<log, pass, in_hand>>
    /\ UNCHANGED <<flag_vars, composite_vars>>

\* BarChartWidget.paintEvent after the copy: _prepare_painting, the drawing and
\* self._draw_config = config; nothing is drawn or stored when
\* _prepare_drawing_cache raises.  The pass computes the resolved config, the
\* cache and the config with its cache once each.
paintEvent(c, copied) ==
    \E resolved \in {prepare_painting(c, copied)} :
    \E cache \in {prepare_drawing_cache(c, resolved)} :
    \E config \in {[resolved EXCEPT !.drawing_cache = <<cache>>]} :
        IF cache.raises
        THEN /\ pass' = [pass EXCEPT ![c] =
                     [status |-> "raised", pre_scale |-> pre_scale(c, resolved),
                      config |-> <<resolved>>, cache |-> <<cache>>,
                      again |-> painting[c] /\ pass[c].status # "none"]]
             /\ log' = [log EXCEPT ![c] = <<>>]
             /\ UNCHANGED <<draw_config, last_config>>
        ELSE /\ pass' = [pass EXCEPT ![c] =
                     [status |-> "painted", pre_scale |-> pre_scale(c, resolved),
                      config |-> <<config>>, cache |-> <<cache>>,
                      again |-> painting[c] /\ pass[c].status # "none"]]
             /\ log' = [log EXCEPT ![c] = paint_events(c, config)]
             /\ draw_config' = [draw_config EXCEPT ![c] = axis_config(c, config)]
             /\ last_config' = [a \in Axes |->
                     IF a \in Range(axises(c)) THEN <<config>> ELSE last_config[a]]

\* the copy as _prepare_painting leaves it, and whether the call raises
prepared_config(c, copied) ==
    LET resolved == prepare_painting(c, copied)
        cache == prepare_drawing_cache(c, resolved)
    IN  [config |-> [resolved EXCEPT !.drawing_cache = <<cache>>],
         raises |-> cache.raises]

persisted_after_nocopy(c, written) == written

\* config = copy(self._draw_config): the pass writes the fields of the copy,
\* and the object self._draw_config refers to keeps its own
persisted_after(c, written) == draw_config[c]

\* BarChartWidget.paintEvent, config = self._prepare_painting(config), when
\* it returns: has_showing_data, the Y range and the drawing cache are
\* written into the copy, and nothing has been drawn yet
PaintPrepare(c) ==
    /\ painting[c]
    /\ in_hand[c] = <<>>
    /\ \E done \in {prepared_config(c, frame[c])} :
        /\ ~done.raises
        /\ in_hand' = [in_hand EXCEPT ![c] = <<done.config>>]
        /\ draw_config' = [draw_config EXCEPT
                ![c] = persisted_after(c, done.config)]
    /\ UNCHANGED <<cross_vars, flag_vars, composite_vars>>
    /\ UNCHANGED <<paddings, size, axis_list, drawers, edge_visible, painting, frame,
                   log, pass>>

\* the rest of a paint pass: the drawing and self._draw_config = config after
\* _prepare_painting has returned, or the end of the pass when it raises
PaintEnd(c) ==
    /\ painting[c]
    /\ in_hand[c] # <<>> \/ prepared_config(c, frame[c]).raises
    /\ paintEvent(c, frame[c])
    /\ painting' = [painting EXCEPT ![c] = FALSE]
    /\ frame' = [frame EXCEPT ![c] = InitConfig]
    /\ in_hand' = [in_hand EXCEPT ![c] = <<>>]
    /\ UNCHANGED <<drawer_value, links, connected, linked, stack, pending, emitted,
                   requested, top>>
    /\ UNCHANGED <<paddings, size, axis_list, drawers, edge_visible>>
    /\ UNCHANGED <<flag_vars, composite_vars>>

\* a paint pass that nothing interrupts
Paint(c) ==
    /\ Quiet
    /\ paintEvent(c, draw_config[c])
    /\ Forget(NoRequested)
    /\ UNCHANGED <<drawer_value, links, connected, linked, stack, pending>>
    /\ UNCHANGED <<paddings, size, axis_list, drawers, edge_visible,
                   painting, frame, in_hand>>
    /\ UNCHANGED <<flag_vars, composite_vars>>

(***************************************************************************)
(* Pointer positions (src/chart/advanced_chart.py).                        *)
(***************************************************************************)
ui_pos_value_swapped(a, pos) ==
    LET cache == last_config[a][1].drawing_cache[1] IN
    IF orientation(a) = "HORIZONTAL"
    THEN ui_y_to_drawer(cache, pos) ELSE ui_x_to_drawer(cache, pos)

\* CrossHairAxis.set_value_by_ui_pos: the value it hands to _set_drawer_value
ui_pos_value(a, pos) ==
    LET cache == last_config[a][1].drawing_cache[1] IN
    IF orientation(a) = "HORIZONTAL"
    THEN ui_x_to_drawer(cache, pos) ELSE ui_y_to_drawer(cache, pos)

\* CrossHairAxis.set_value_by_ui_pos
set_value_by_ui_pos(a, pos) ==
    IF last_config[a] = <<>>
    THEN /\ top' = [kind |-> "ui_pos", axis |-> a, arg |-> R(0), pos |-> pos,
                    applied |-> FALSE, held |-> {}, rep |-> FALSE]
         /\ emitted' = NoEmitted
         /\ requested' = NoRequested
         /\ UNCHANGED <<drawer_value, stack>>
    ELSE /\ top' = TopOf("ui_pos", a, ui_pos_value(a, pos), pos)
         /\ set_drawer_value(a, ui_pos_value(a, pos), <<>>, NoEmitted, NoRequested)

(***************************************************************************)
(* The composite chart (src/chart/advanced_chart.py).                      *)
(***************************************************************************)
Wrappers == 1..Len(sub_wrappers)
\* AdvancedChartWidget.charts
charts == [i \in Wrappers |-> sub_wrappers[i].chart]

\* the axes add_chart adds: "if cross_hair_x: ...; if cross_hair_y: ..."
Given(cross_hair_x, cross_hair_y) ==
    (IF cross_hair_x # 0 THEN <<cross_hair_x>> ELSE <<>>)
        \o (IF cross_hair_y # 0 THEN <<cross_hair_y>> ELSE <<>>)

fix_padding_new_only(c) == [paddings EXCEPT ![c] = <<80, 0, 10, 20>>]

\* add_chart, "# fix padding": the last chart so far loses its bottom padding,
\* the new chart gets (80, 0, 10, 20)
fix_padding(c) ==
    [x \in Charts |->
        IF x = c THEN <<80, 0, 10, 20>>
        ELSE IF sub_wrappers # <<>> /\ x = sub_wrappers[Len(sub_wrappers)].chart
             THEN <<paddings[x][1], paddings[x][2], paddings[x][3], 0>>
             ELSE paddings[x]]

is_new_chart_always(c) == TRUE

\* add_chart: if chart not in [w.chart for w in self._sub_wrappers]
is_new_chart(c) == c \notin Range(charts)

\* AdvancedChartWidget.add_chart; 0 stands for a crosshair that is None.  The
\* call is remembered in top with its arguments.
AddChart(c, cross_hair_x, cross_hair_y) ==
    /\ Quiet /\ c \in Charts
    /\ Len(axis_list[c]) + Len(Given(cross_hair_x, cross_hair_y)) <= MaxAxisList
    /\ IF is_new_chart(c)
       THEN /\ paddings' = fix_padding(c)
            /\ axis_list' = add_axis(c, Given(cross_hair_x, cross_hair_y))
            /\ sub_wrappers' = Append(sub_wrappers,
                    [chart |-> c, cross_hair_x |-> cross_hair_x,
                     cross_hair_y |-> cross_hair_y])
            /\ mouse_handler' = [mouse_handler EXCEPT ![c] = Len(sub_wrappers) + 1]
            /\ log' = [x \in Charts |-> <<>>]
            /\ pass' = [x \in Charts |-> NoPass]
       ELSE UNCHANGED <<paddings, axis_list, sub_wrappers, mouse_handler, log, pass>>
    /\ top' = [NoTop EXCEPT !.kind = "add_chart",
                            !.arg = <<c, cross_hair_x, cross_hair_y>>]
    /\ emitted' = NoEmitted
    /\ requested' = NoRequested
    /\ UNCHANGED <<drawer_value, links, last_config, connected, linked, stack, pending>>
    /\ UNCHANGED <<size, drawers, draw_config, edge_visible,
                   painting, frame, in_hand>>
    /\ UNCHANGED flag_vars

\* SubChartWrapper._add_cross_hair and the assignment that follows it in
\* set_cross_hair_x / set_cross_hair_y
add_cross_hair(i, a, field) ==
    /\ connected' = [connected EXCEPT ![a] = Append(@, sub_wrappers[i].chart)]
    /\ axis_list' = add_axis(sub_wrappers[i].chart, <<a>>)
    /\ sub_wrappers' = [sub_wrappers EXCEPT ![i][field] = a]
    /\ Touch(sub_wrappers[i].chart)
    /\ Forget(NoRequested)
    /\ UNCHANGED <<drawer_value, links, last_config, linked, stack, pending>>
    /\ UNCHANGED <<paddings, size, drawers, draw_config, edge_visible,
                   painting, frame, in_hand>>
    /\ UNCHANGED <<flag_vars, mouse_handler>>

\* SubChartWrapper.set_cross_hair_x; the assert stops a second call
SetCrossHairX(i, a) ==
    /\ Quiet
    /\ i \in Wrappers
    /\ sub_wrappers[i].cross_hair_x = 0
    /\ Len(axis_list[sub_wrappers[i].chart]) < MaxAxisList
    /\ add_cross_hair(i, a, "cross_hair_x")

\* SubChartWrapper.set_cross_hair_y
SetCrossHairY(i, a) ==
    /\ Quiet
    /\ i \in Wrappers
    /\ sub_wrappers[i].cross_hair_y = 0
    /\ Len(axis_list[sub_wrappers[i].chart]) < MaxAxisList
    /\ add_cross_hair(i, a, "cross_hair_y")

\* CrossHairAxisX(choose) and CrossHairAxisY(choose) return an axis object
\* that nothing has seen: of the axis objects of class cls it is the first one
\* that is as its constructor made it and that no list, link or wrapper
\* holds; 0 when there is none left
NewAxis(cls) ==
    LET unused == {a \in Axes :
            /\ Class(a) = cls /\ ~Registered(a)
            /\ drawer_value[a] = R(0) /\ last_config[a] = <<>>
            /\ links[a] = <<>> /\ connected[a] = <<>>
            /\ axis_visible[a] /\ grid_visible[a] /\ tick_visible[a]
            /\ \A b \in Axes : a \notin Range(links[b])
            /\ \A i \in Wrappers : a \notin {sub_wrappers[i].cross_hair_x,
                                             sub_wrappers[i].cross_hair_y}}
    IN  IF unused = {} THEN 0 ELSE CHOOSE a \in unused : \A b \in unused : a <= b

CrossHairClass(field) ==
    IF field = "cross_hair_x" THEN "CrossHairAxisX" ELSE "CrossHairAxisY"

\* the wrapper's state as a caller sees it, whether a call has raised, and
\* whether a constructor was called with no axis object left for it
Wrapped ==
    [connected |-> connected, axis_list |-> axis_list,
     sub_wrappers |-> sub_wrappers, raised |-> FALSE, short |-> FALSE]

\* SubChartWrapper.create_cross_hair_x / create_cross_hair_y on the state st:
\* the assert raises when the wrapper has the crosshair; nothing is done when
\* the chart has no axis of the orientation; else a new crosshair over the
\* first such axis is connected, added to the chart and kept by the wrapper
create_cross_hair(st, i, field) ==
    LET c == st.sub_wrappers[i].chart
        cls == CrossHairClass(field)
        \* chart.all_axis_x / chart.all_axis_y
        same(a) == orientation(a) =
                      IF field = "cross_hair_x" THEN "HORIZONTAL" ELSE "VERTICAL"
        axis == NewAxis(cls)
    IN  IF st.raised \/ st.sub_wrappers[i][field] # 0
        THEN [st EXCEPT !.raised = TRUE]
        ELSE IF SelectSeq(st.axis_list[c], same) = <<>>
        THEN st
        ELSE IF axis = 0
        THEN [st EXCEPT !.short = TRUE]
        ELSE [st EXCEPT !.connected[axis] = Append(@, c),
                        !.axis_list[c] = Append(@, axis),
                        !.sub_wrappers[i][field] = axis]

\* the wrapper's state after a call, as st has it
Created(i, st) ==
    /\ ~st.short
    /\ connected' = st.connected
    /\ axis_list' = st.axis_list
    /\ sub_wrappers' = st.sub_wrappers
    /\ Len(st.axis_list[sub_wrappers[i].chart]) <= MaxCreatedAxisList
    /\ Touch(sub_wrappers[i].chart)
    /\ Forget(NoRequested)
    /\ UNCHANGED <<drawer_value, links, last_config, linked, stack, pending>>
    /\ UNCHANGED <<paddings, size, drawers, draw_config, edge_visible,
                   painting, frame, in_hand>>
    /\ UNCHANGED <<flag_vars, mouse_handler>>

\* SubChartWrapper.create_cross_hair_x
CreateCrossHairX(i) ==
    /\ Quiet
    /\ i \in Wrappers
    /\ Created(i, create_cross_hair(Wrapped, i, "cross_hair_x"))

\* SubChartWrapper.create_cross_hair_y
CreateCrossHairY(i) ==
    /\ Quiet
    /\ i \in Wrappers
    /\ Created(i, create_cross_hair(Wrapped, i, "cross_hair_y"))

\* SubChartWrapper.create_default_cross_hair: create_cross_hair_x, then
\* create_cross_hair_y unless the first call raised; a crosshair the first
\* call made stays when the second raises
CreateDefaultCrossHair(i) ==
    /\ Quiet
    /\ i \in Wrappers
    /\ Created(i, create_cross_hair(create_cross_hair(Wrapped, i, "cross_hair_x"),
                                    i, "cross_hair_y"))

\* SubChartWrapper.link_x_to: self.cross_hair_x.link_to(target.cross_hair_x)
LinkXTo(i, j) ==
    /\ i \in Wrappers /\ j \in Wrappers
    /\ sub_wrappers[i].cross_hair_x # 0 /\ sub_wrappers[j].cross_hair_x # 0
    /\ TotalLinks < MaxWrapperLinks
    /\ LinkTo(sub_wrappers[i].cross_hair_x, sub_wrappers[j].cross_hair_x)

\* SubChartWrapper.link_y_to
LinkYTo(i, j) ==
    /\ i \in Wrappers /\ j \in Wrappers
    /\ sub_wrappers[i].cross_hair_y # 0 /\ sub_wrappers[j].cross_hair_y # 0
    /\ TotalLinks < MaxWrapperLinks
    /\ LinkTo(sub_wrappers[i].cross_hair_y, sub_wrappers[j].cross_hair_y)

\* the calls on_sub_chart_mouse_move makes for a wrapper, in order
mouse_calls(w, x, y) ==
    (IF w.cross_hair_x # 0 THEN <<[axis |-> w.cross_hair_x, pos |-> x]>> ELSE <<>>)
        \o (IF w.cross_hair_y # 0 THEN <<[axis |-> w.cross_hair_y, pos |-> y]>> ELSE <<>>)

\* chart.mouseMoveEvent as add_chart installs it:
\* AdvancedChartWidget.on_sub_chart_mouse_move, up to the end of its first call
MouseMove(c, x, y) ==
    /\ Quiet
    /\ mouse_handler[c] # 0
    /\ LET calls == mouse_calls(sub_wrappers[mouse_handler[c]], x, y)
       IN  /\ calls # <<>>
           /\ set_value_by_ui_pos(calls[1].axis, calls[1].pos)
           /\ pending' = Tail(calls)
    /\ UNCHANGED <<links, last_config, connected, linked>>
    /\ UNCHANGED <<flag_vars, chart_vars, composite_vars>>

\* on_sub_chart_mouse_move: its next call, once the one before has returned
MouseMoveNext ==
    /\ Idle
    /\ pending # <<>>
    /\ set_value_by_ui_pos(pending[1].axis, pending[1].pos)
    /\ pending' = Tail(pending)
    /\ UNCHANGED <<links, last_config, connected, linked>>
    /\ UNCHANGED <<flag_vars, chart_vars, composite_vars>>

\* SubChartWrapper.set_crosshair_visible: axis_visible of cross_hair_x, then of
\* cross_hair_y; the assignment to a crosshair that is None raises, after the
\* one before it has been made
set_crosshair_visible(i, visible) ==
    LET x == sub_wrappers[i].cross_hair_x
        y == sub_wrappers[i].cross_hair_y
    IN  [a \in AllAxes |->
            IF x # 0 /\ (a = x \/ a = y) THEN visible ELSE axis_visible[a]]

SetCrosshairVisible(i, visible) ==
    /\ Quiet
    /\ i \in Wrappers
    /\ axis_visible' = set_crosshair_visible(i, visible)
    /\ log' = [c \in Charts |-> <<>>]
    /\ pass' = [c \in Charts |-> NoPass]
    /\ Forget(NoRequested)
    /\ UNCHANGED <<drawer_value, links, last_config, connected, linked, stack, pending>>
    /\ UNCHANGED <<paddings, size, axis_list, drawers, draw_config, edge_visible,
                   painting, frame, in_hand>>
    /\ UNCHANGED <<grid_visible, tick_visible, composite_vars>>

(***************************************************************************)
(* The composite chart's range calls.  The optional chart argument is      *)
(* <<"none", 0>> for None, <<"chart", c>> for a surface and                *)
(* <<"wrapper", i>> for the i-th SubChartWrapper.                          *)
(***************************************************************************)
NoChart == <<"none", 0>>

\* AdvancedChartWidget._to_sub_chart
to_sub_chart(chart) ==
    IF chart[1] = "wrapper" THEN sub_wrappers[chart[2]].chart ELSE chart[2]

range_targets_all(chart) == charts

\* scroll_x, set_x_range: charts = self.charts if chart is None,
\* else [self._to_sub_chart(chart)]
range_targets(chart) ==
    IF chart = NoChart THEN charts ELSE <<to_sub_chart(chart)>>

\* the chart arguments a caller can pass
ChartArgs ==
    {NoChart} \cup {<<"chart", c>> : c \in Charts} \cup {<<"wrapper", i>> : i \in Wrappers}

\* the surface's scroll_x(diff): begin and end shifted by diff
surface_scroll_x(config, diff) ==
    [config EXCEPT !.begin = @ + diff, !.end = @ + diff]

\* the surface's get_x_range(): (begin, end)
surface_get_x_range(config) == <<config.begin, config.end>>

RECURSIVE ScrollEach(_, _, _)
\* for chart in charts: chart.scroll_x(diff=diff)
ScrollEach(cfg, targets, diff) ==
    IF targets = <<>> THEN cfg
    ELSE ScrollEach([cfg EXCEPT ![Head(targets)] = surface_scroll_x(@, diff)],
                    Tail(targets), diff)

RECURSIVE SetRangeEach(_, _, _, _)
\* for chart in charts: chart.set_x_range(begin=begin, end=end)
SetRangeEach(cfg, targets, begin, end) ==
    IF targets = <<>> THEN cfg
    ELSE SetRangeEach([cfg EXCEPT ![Head(targets)].begin = begin,
                                  ![Head(targets)].end = end],
                      Tail(targets), begin, end)

\* what a range call leaves of the last passes and of the last value update:
\* the surfaces called forget their pass and ask for a repaint
RangeCalled(kind, chart, a, b, targets) ==
    /\ log' = [c \in Charts |-> IF c \in Range(targets) THEN <<>> ELSE log[c]]
    /\ pass' = [c \in Charts |-> IF c \in Range(targets) THEN NoPass ELSE pass[c]]
    /\ top' = [NoTop EXCEPT !.kind = kind, !.arg = <<chart, a, b>>]
    /\ emitted' = NoEmitted
    /\ requested' = [c \in Charts |-> Count(targets, c)]

\* AdvancedChartWidget.set_x_range
CompositeSetXRange(begin, end, chart) ==
    /\ Quiet
    /\ draw_config' = SetRangeEach(draw_config, range_targets(chart), begin, end)
    /\ RangeCalled("set_x_range", chart, begin, end, range_targets(chart))
    /\ UNCHANGED <<drawer_value, links, last_config, connected, linked, stack, pending>>
    /\ UNCHANGED <<paddings, size, axis_list, drawers, edge_visible,
                   painting, frame, in_hand>>
    /\ UNCHANGED <<flag_vars, composite_vars>>

\* AdvancedChartWidget.scroll_x; the shifted ranges stay within MaxShift of
\* the initial range
CompositeScrollX(diff, chart) ==
    /\ Quiet
    /\ draw_config' = ScrollEach(draw_config, range_targets(chart), diff)
    /\ \A c \in Charts :
            /\ draw_config'[c].begin \in (0 - MaxShift)..(10 + MaxShift)
            /\ draw_config'[c].end \in (0 - MaxShift)..(10 + MaxShift)
    /\ RangeCalled("scroll_x", chart, diff, 0, range_targets(chart))
    /\ UNCHANGED <<drawer_value, links, last_config, connected, linked, stack, pending>>
    /\ UNCHANGED <<paddings, size, axis_list, drawers, edge_visible,
                   painting, frame, in_hand>>
    /\ UNCHANGED <<flag_vars, composite_vars>>

\* AdvancedChartWidget.get_x_range: the value it returns.  Without a chart the
\* assert stops the call when no chart has been added.
get_x_range(chart) ==
    surface_get_x_range(draw_config[IF chart = NoChart THEN sub_wrappers[1].chart
                                    ELSE chart[2]])

\* a caller reads the range; the arguments and the value returned are
\* remembered in top.  The call is made without a chart or with a surface: a
\* SubChartWrapper has no get_x_range.
CompositeGetXRange(chart) ==
    /\ Quiet
    /\ chart[1] # "wrapper"
    /\ chart = NoChart => Len(sub_wrappers) > 0
    /\ top' = [NoTop EXCEPT !.kind = "get_x_range",
                            !.arg = <<chart, get_x_range(chart)[1], get_x_range(chart)[2]>>]
    /\ emitted' = NoEmitted
    /\ requested' = NoRequested
    /\ UNCHANGED <<drawer_value, links, last_config, connected, linked, stack, pending>>
    /\ UNCHANGED <<chart_vars, flag_vars, composite_vars>>

(***************************************************************************)
(* Specifications.                                                         *)
(***************************************************************************)
\* the crosshair axes alone: one axis of each class and a second plain X axis
\* with every link between them, while there are fewer than MaxLinks links
LinkAxes == {1, 2, 3, 4}

NextLink ==
    \/ \E a \in LinkAxes, v \in SetValues : SetDrawerValue(a, v)
    \/ SyncStep
    \/ \E a, b \in LinkAxes : TotalLinks < MaxLinks /\ LinkTo(a, b)

SpecLink == Init /\ [][NextLink]_vars

\* a running cascade is not abandoned: the calls are synchronous
FairSpecLink == SpecLink /\ WF_vars(SyncStep)

\* one chart surface and its paint pass
PaintAxes == {DefaultAxisX(1)}

NextPaint ==
    \/ \E d \in DrawerKinds : AddDrawer(1, d)
    \/ \E r \in XRanges : SetXRange(1, r[1], r[2])
    \/ \E a \in PaintAxes : AddAxis(1, a)
    \/ \E a \in PaintAxes, v \in BOOLEAN : SetGridVisible(a, v)
    \/ \E a \in PaintAxes, v \in BOOLEAN : SetTickVisible(a, v)
    \/ \E a \in PaintAxes, v \in BOOLEAN : SetAxisVisible(a, v)
    \/ \E sz \in WidgetSizes : Resize(1, sz)
    \/ PaintBegin(1)
    \/ PaintPrepare(1)
    \/ PaintEnd(1)

SpecPaint == Init /\ [][NextPaint]_vars

\* The composite chart with its surfaces, wrappers and crosshairs.  Charts are
\* added in the order of their numbers, each once.
\* the X crosshair a caller has made for chart c
CrossHairFor(c) == c
\* the Y crosshairs a caller has made
YCrossHairs == {a \in Axes : orientation(a) = "VERTICAL"}

Next ==
    \/ \E c \in {Len(sub_wrappers) + 1} :
        \E x \in {0, CrossHairFor(c)}, y \in YCrossHairs \cup {0} : AddChart(c, x, y)
    \/ \E i \in Wrappers : SetCrossHairX(i, CrossHairFor(sub_wrappers[i].chart))
    \/ \E i \in Wrappers, a \in YCrossHairs : SetCrossHairY(i, a)
    \/ \E i, j \in Wrappers : LinkXTo(i, j)
    \/ \E i, j \in Wrappers : LinkYTo(i, j)
    \/ \E c \in Charts, x \in PointerX, y \in PointerY : MouseMove(c, x, y)
    \/ MouseMoveNext
    \/ SyncStep
    \/ \E c \in Range(charts) : Paint(c)

Spec == Init /\ [][Next]_vars

\* Setting up the composite chart: charts are added in any order and added
\* again, with or without crosshairs; crosshairs are set on the wrappers; the
\* surfaces are painted.
NextCompose ==
    \/ \E c \in Charts :
        \E x \in {0, CrossHairFor(c)}, y \in YCrossHairs \cup {0} : AddChart(c, x, y)
    \/ \E i \in Wrappers : SetCrossHairX(i, CrossHairFor(sub_wrappers[i].chart))
    \/ \E i \in Wrappers, a \in YCrossHairs : SetCrossHairY(i, a)
    \/ \E c \in Range(charts) : Paint(c)

SpecCompose == Init /\ [][NextCompose]_vars

\* The range calls of the composite chart over charts added in any order.
Diffs == {-1, 2}

NextRange ==
    \/ \E c \in Charts : AddChart(c, 0, 0)
    \/ \E r \in XRanges, chart \in ChartArgs : CompositeSetXRange(r[1], r[2], chart)
    \/ \E d \in Diffs, chart \in ChartArgs : CompositeScrollX(d, chart)
    \/ \E chart \in ChartArgs : CompositeGetXRange(chart)

SpecRange == Init /\ [][NextRange]_vars

\* Crosshairs given, made, shown and hidden between the paint passes of the
\* one surface of a composite chart, over changing ranges and sizes.
NextVisible ==
    \/ CreateDefaultAxis(1)
    \/ \E x \in {0, CrossHairFor(1)}, y \in YCrossHairs \cup {0} : AddChart(1, x, y)
    \/ \E i \in Wrappers : CreateCrossHairX(i)
    \/ \E i \in Wrappers : CreateCrossHairY(i)
    \/ \E i \in Wrappers : CreateDefaultCrossHair(i)
    \/ \E i \in Wrappers, v \in BOOLEAN : SetCrosshairVisible(i, v)
    \/ \E c \in Range(charts), r \in XRanges : SetXRange(c, r[1], r[2])
    \/ \E c \in Range(charts), sz \in WidgetSizes : Resize(c, sz)
    \/ \E c \in Range(charts) : Paint(c)

SpecVisible == Init /\ [][NextVisible]_vars

\* Cascades over a link graph of four plain X axes and the bar axis: 1 pushes
\* into 3 and 5, both push into 6 and 6 pushes back into 1; 3 also pushes into
\* the bar axis 2, which pushes into 6.  Each pair <<self, target>> is a call
\* self.link_to(target); the calls are made in any order, each or not.
CascadeLinks == {<<3, 1>>, <<5, 1>>, <<6, 3>>, <<6, 5>>, <<1, 6>>, <<2, 3>>, <<6, 2>>}
CascadeAxes == {1, 2, 3, 5, 6}

NextCascade ==
    \/ \E a \in CascadeAxes, v \in SetValues : SetDrawerValue(a, v)
    \/ SyncStep
    \/ \E p \in CascadeLinks : TotalLinks < MaxCascadeLinks /\ LinkTo(p[1], p[2])

SpecCascade == Init /\ [][NextCascade]_vars

(***************************************************************************)
(* The link graph.                                                         *)
(***************************************************************************)
Succ(S) == UNION {Range(links[x]) : x \in S}

RECURSIVE Closure(_)
Closure(S) == IF Succ(S) \subseteq S THEN S ELSE Closure(S \cup Succ(S))

\* the axes a cascade that starts at a can call, a included
Reach(a) == Closure({a})
\* the axes reached from a over at least one link
ReachPlus(a) == Closure(Succ({a}))

Snapping(a) == Class(a) = "CrossHairBarAxisX"
PlainFrom(a) == \A x \in Reach(a) : ~Snapping(x)
\* a lies on no link cycle that holds a snapping axis
NoSnapCycle(a) == \A b \in ReachPlus(a) : Snapping(b) => a \notin ReachPlus(b)

FinishedSet == Idle /\ top.kind = "set"

\* C1 as stated, for plain axes A and B: after A.link_to(B), changing A's
\* value to v sets B's value to v and notifies B exactly once, or not at all
\* if B already held v.
C1_SelfPushesIntoTarget ==
    \A A, B \in Axes :
        (FinishedSet /\ top.axis = A /\ emitted[A] >= 1 /\ <<A, B>> \in linked
            /\ ~Snapping(A) /\ ~Snapping(B))
        => /\ drawer_value[B] = top.arg
           /\ emitted[B] = IF B \in top.held THEN 0 ELSE 1

\* The direction link_to builds instead: after A.link_to(B) the push runs from
\* B to A.  When B and all axes its cascade reaches are plain, changing B's
\* value to v sets A's value to v and notifies A exactly once, or not at all
\* if A already held v.
TargetPushesIntoSelf ==
    \A A, B \in Axes :
        (FinishedSet /\ top.axis = B /\ emitted[B] >= 1 /\ <<A, B>> \in linked
            /\ PlainFrom(B))
        => /\ drawer_value[A] = top.arg
           /\ emitted[A] = IF A \in top.held THEN 0 ELSE 1

\* a finished change of B after A.link_to(B) with no link in the other direction
TargetHasPushedIntoSelf ==
    \E A, B \in Axes :
        /\ A # B /\ FinishedSet /\ top.axis = B /\ <<A, B>> \in linked
        /\ <<B, A>> \notin linked /\ PlainFrom(B)
        /\ emitted[B] = 1 /\ emitted[A] = 1
        /\ drawer_value[A] = top.arg /\ top.arg # R(0)

\* C2: every top-level value update terminates, whatever the link graph and
\* the mix of plain and snapping axes: a running cascade always comes to its
\* end, and its nesting stays below the depth the model follows.
C2_CascadeTerminates == [](Len(stack) < MaxDepth) /\ (~Idle ~> Idle)

\* a finished cascade over a cycle with a snapping axis that re-entered an axis
C2_Witness ==
    /\ FinishedSet
    /\ \E a \in Axes : emitted[a] >= 2 /\ a \in ReachPlus(a) /\ ~NoSnapCycle(a)

\* C3 as stated: for any axis, state and value v, of two calls in a row that
\* set v the first emits exactly one notification and the second none.
C3_FirstNotifiesSecondNot ==
    FinishedSet =>
        emitted[top.axis] = IF top.rep THEN 0 ELSE 1

\* C3 amended: for an axis on no link cycle that holds a snapping axis, a call
\* that sets v emits exactly one notification if the value the axis stores for
\* v differs from the one it holds and none otherwise, and a second call in a
\* row with the same v emits none.
C3_NotifiesOnChangeOnly ==
    (FinishedSet /\ NoSnapCycle(top.axis)) =>
        /\ emitted[top.axis] = IF top.axis \in top.held THEN 0 ELSE 1
        /\ top.rep => emitted[top.axis] = 0

C3_Witness ==
    /\ FinishedSet /\ top.rep /\ NoSnapCycle(top.axis)
    /\ emitted[top.axis] = 0
    /\ drawer_value[top.axis] # R(0)
    /\ top.axis \in ReachPlus(top.axis)

(***************************************************************************)
(* The paint pass.                                                         *)
(***************************************************************************)
\* the place of a draw call in the order clear, grids, drawers, ticks, border;
\* -1 for a call that draws nothing
DrawPhase(op) ==
    CASE op = "clear" -> 0
      [] op = "draw_grids" -> 1
      [] op = "draw" -> 2
      [] op = "draw_ticks" -> 3
      [] op = "border" -> 4
      [] OTHER -> -1

Ops(c) == {log[c][i].op : i \in 1..Len(log[c])}
Passed(c) == pass[c].status # "none"
PassConfig(c) == pass[c].config[1]
PassCache(c) == pass[c].cache[1]
DataDrawers(c) == {drawers[c][i] : i \in {j \in 1..Len(drawers[c]) : drawers[c][j].has_data}}

\* C4 as stated: in one paint pass the draw calls come in the order clear,
\* axis grids, drawer series, axis ticks and labels, border; no tick or label
\* draw comes before a drawer's draw.
C4_DrawOrder ==
    \A c \in Charts : \A i, j \in 1..Len(log[c]) :
        (i < j /\ DrawPhase(log[c][i].op) >= 0 /\ DrawPhase(log[c][j].op) >= 0)
        => DrawPhase(log[c][i].op) <= DrawPhase(log[c][j].op)

\* C5 as stated: a paint pass over a range with begin = end has
\* has_showing_data false, draws no grid, no tick or label and no drawer, and
\* still draws the plot border.
C5_EmptyRangeDrawsBorderOnly ==
    \A c \in Charts :
        (Passed(c) /\ PassConfig(c).begin = PassConfig(c).end /\ edge_visible[c])
        => /\ ~Truthy(PassConfig(c).has_showing_data)
           /\ Ops(c) \cap {"draw_grids", "draw_ticks", "draw"} = {}
           /\ "border" \in Ops(c)

\* C6 as stated: a paint pass over a non-empty range in which no drawer
\* reports data (no drawer at all, or none with data) takes [0, 1] as the
\* range before scaling, whatever Y range the config held before.
C6_DefaultYRange ==
    \A c \in Charts :
        (Passed(c) /\ PassConfig(c).end > PassConfig(c).begin /\ DataDrawers(c) = {})
        => /\ pass[c].pre_scale = <<R(DefaultYLow), R(DefaultYHigh)>>
           /\ <<PassConfig(c).y_low, PassConfig(c).y_high>>
                = scale_from_mid(R(DefaultYLow), R(DefaultYHigh), y_scale)

\* the least y_low and the greatest y_high the drawers with data report
LeastLow(c) ==
    CHOOSE l \in {d.y_low : d \in DataDrawers(c)} :
        \A d \in DataDrawers(c) : l <= d.y_low
GreatestHigh(c) ==
    CHOOSE h \in {d.y_high : d \in DataDrawers(c)} :
        \A d \in DataDrawers(c) : h >= d.y_high

\* C7: a paint pass over a non-empty range with at least one drawer that has
\* data ends with (y_low, y_high) = scale_from_mid(L, H, y_scale), L the least
\* y_low and H the greatest y_high of the drawers with data: the midpoint of
\* [L, H] is kept and the width is multiplied by y_scale.  A pass that
\* completes stores this range in the surface's config.
C7_ScaledYRange ==
    \A c \in Charts :
        (Passed(c) /\ PassConfig(c).end > PassConfig(c).begin /\ DataDrawers(c) # {})
        => LET L == R(LeastLow(c))
               H == R(GreatestHigh(c))
               low == PassConfig(c).y_low
               high == PassConfig(c).y_high
           IN  /\ <<low, high>> = scale_from_mid(L, H, y_scale)
               /\ RAdd(low, high) = RAdd(L, H)
               /\ RSub(high, low) = RMul(RSub(H, L), y_scale)
               /\ pass[c].status = "painted"
                    => draw_config[c].y_low = low /\ draw_config[c].y_high = high

\* C7's case: drawers reporting [-2, 3] and [1, 10] were painted over a
\* non-empty range and the stored range is [-2.6, 10.6]
C7_Witness ==
    \E c \in Charts :
        /\ pass[c].status = "painted"
        /\ PassConfig(c).end > PassConfig(c).begin
        /\ Cardinality(DataDrawers(c)) = 2
        /\ draw_config[c].y_low = <<-13, 5>>
        /\ draw_config[c].y_high = <<53, 5>>

\* the pixels at which C10 compares a transform with its inverse
ProbePixels == {0, 7, 480}

\* C10 as stated: in every paint pass the drawer transform is invertible and
\* ui_transform is its exact inverse, for every range, Y range, widget size
\* and padding.
C10_TransformInvertible ==
    \A c \in Charts :
        Passed(c)
        => /\ PassCache(c).invertible
           /\ ~PassCache(c).raises
           /\ \A p \in ProbePixels :
                /\ MapX(PassCache(c).ui_transform,
                        MapX(PassCache(c).drawer_transform, R(p))) = R(p)
                /\ MapY(PassCache(c).ui_transform,
                        MapY(PassCache(c).drawer_transform, R(p))) = R(p)

(***************************************************************************)
(* The composite chart's wiring.                                           *)
(***************************************************************************)
\* the crosshair axes bound to wrapper i
Bound(i) == {sub_wrappers[i].cross_hair_x, sub_wrappers[i].cross_hair_y} \ {0}

\* C8 as stated: whenever the value of a crosshair axis bound to a wrapper
\* changes, a repaint of that wrapper's chart is requested, for a crosshair
\* passed to add_chart as for one set through the wrapper.
C8_ChangeRequestsRepaint ==
    \A i \in Wrappers : \A a \in Bound(i) :
        emitted[a] >= 1 => requested[sub_wrappers[i].chart] >= 1

\* a step in which set_value_by_ui_pos is called on an axis
IsUiPosCall ==
    /\ top'.kind = "ui_pos"
    /\ Len(stack) = 0
    /\ top' # top \/ pending' # pending \/ drawer_value' # drawer_value

\* C9: set_value_by_ui_pos(pixel) on an axis that has seen no config changes
\* no value, emits no notification and starts no cascade; on an axis that has
\* seen one, the value handed on is the drawer coordinate that the config's
\* drawer transform maps to the pixel, X for a horizontal and Y for a vertical
\* axis, and the axis stores it as _set_drawer_value does.
C9_SetValueByUiPos ==
    [][IsUiPosCall =>
        LET a == top'.axis IN
        IF last_config[a] = <<>>
        THEN /\ ~top'.applied
             /\ drawer_value' = drawer_value
             /\ emitted' = NoEmitted
             /\ requested' = NoRequested
             /\ stack' = <<>>
        ELSE LET cache == last_config[a][1].drawing_cache[1] IN
             /\ top'.applied
             /\ IF orientation(a) = "HORIZONTAL"
                THEN MapX(cache.drawer_transform, top'.arg) = R(top'.pos)
                ELSE MapY(cache.drawer_transform, top'.arg) = R(top'.pos)
             /\ drawer_value'[a] = StoredValue(a, top'.arg)
             /\ emitted'[a] = IF drawer_value[a] = StoredValue(a, top'.arg) THEN 0 ELSE 1
    ]_vars

\* C9's case: a pointer move has run on a wrapper whose horizontal crosshair
\* has seen no config and kept its value, and whose vertical crosshair had
\* seen one and moved to the converted value
C9_Witness ==
    /\ top.kind = "ui_pos" /\ top.applied /\ Quiet
    /\ \E i \in Wrappers :
        /\ top.axis = sub_wrappers[i].cross_hair_y
        /\ emitted[top.axis] = 1
        /\ drawer_value[top.axis] = top.arg
        /\ sub_wrappers[i].cross_hair_x # 0
        /\ last_config[sub_wrappers[i].cross_hair_x] = <<>>
        /\ emitted[sub_wrappers[i].cross_hair_x] = 0

(***************************************************************************)
(* The drawer transform.                                                   *)
(***************************************************************************)
\* C11: the drawer transform of a pass maps the corners of the drawer area D
\* onto the corners of the plot area P with Y inverted: (D.left, D.minY) goes
\* to (P.left, P.bottom) and (D.right, D.maxY) to (P.right, P.top); over a
\* plot area of positive size X grows with X and Y falls as Y grows.
C11_CornersOntoCorners ==
    \A c \in Charts :
        Passed(c)
        => LET t == PassCache(c).drawer_transform
               D == PassCache(c).drawer_area
               P == PassCache(c).plot_area
           IN  /\ D = drawer_area(PassConfig(c))
               /\ ~RLess(D.w, R(1)) /\ ~RLess(D.h, R(1))
               /\ MapX(t, D.x) = P.x
               /\ MapX(t, RAdd(D.x, D.w)) = RAdd(P.x, P.w)
               /\ MapY(t, D.y) = RAdd(P.y, P.h)
               /\ MapY(t, RAdd(D.y, D.h)) = P.y
               /\ RLess(R(0), P.w) => RLess(MapX(t, D.x), MapX(t, RAdd(D.x, D.w)))
               /\ RLess(R(0), P.h) => RLess(MapY(t, RAdd(D.y, D.h)), MapY(t, D.y))

\* C11's case: a pass over drawers with data, whose drawer area starts below
\* zero, has put the area's lower left corner on the plot's lower left corner
C11_Witness ==
    \E c \in Charts :
        /\ pass[c].status = "painted"
        /\ RLess(PassCache(c).drawer_area.y, R(0))
        /\ RLess(R(1), PassCache(c).drawer_area.h)
        /\ MapY(PassCache(c).drawer_transform, PassCache(c).drawer_area.y) = R(460)
        /\ MapX(PassCache(c).drawer_transform, PassCache(c).drawer_area.x) = R(20)

(***************************************************************************)
(* Repeated passes.                                                        *)
(***************************************************************************)
\* a step that ends a paint pass of chart c which began after an earlier pass
\* with no call on the surface in between, the earlier pass having run on the
\* range still in force
RepeatsPass(c) ==
    /\ painting[c] /\ ~painting'[c]
    /\ pass[c].status # "none"
    /\ pass[c].config[1].begin = draw_config[c].begin
    /\ pass[c].config[1].end = draw_config[c].end

\* C12: a paint pass that follows another with the range, the drawers, the
\* paddings and the widget size unchanged leaves the persisted config as the
\* first left it (begin, end, y_low, y_high, has_showing_data and the drawing
\* cache with both areas and both transforms), and computes and draws what
\* the first did.
C12_RepaintIdempotent ==
    [][\A c \in Charts :
        RepeatsPass(c)
        => /\ draw_config'[c] = draw_config[c]
           /\ pass'[c].status = pass[c].status
           /\ pass'[c].config = pass[c].config
           /\ pass'[c].cache = pass[c].cache
           /\ log'[c] = log[c]
    ]_vars

\* C12's case: a second pass over a non-empty range with a drawer that has
\* data has ended, and the persisted Y range is the scaled one
C12_Witness ==
    \E c \in Charts :
        /\ pass[c].again /\ pass[c].status = "painted" /\ ~painting[c]
        /\ DataDrawers(c) # {}
        /\ Truthy(draw_config[c].has_showing_data)
        /\ draw_config[c].y_low # R(DefaultYLow)
        /\ draw_config[c].drawing_cache = pass[c].cache

(***************************************************************************)
(* The bar-axis snap.                                                      *)
(***************************************************************************)
\* the centre of the integer bin that holds value: floor(value) + 0.5
FloorSnap(value) == RAdd(R(value[1] \div value[2]), <<1, 2>>)

BarAxes == {a \in Axes : Class(a) = "CrossHairBarAxisX"}

\* the call the next step of the running cascade makes: <<axis, value>>, or
\* <<>> when the innermost loop is at its end or nothing runs
NextPush ==
    IF Idle THEN <<>>
    ELSE LET f == stack[Len(stack)]
         IN  IF f.idx > Len(links[f.axis]) THEN <<>>
             ELSE <<links[f.axis][f.idx], drawer_value[f.axis]>>

\* C13: a bar-axis crosshair stores floor(value) + 0.5 for every value it is
\* handed, by a caller or by the axis that pushes into it, negative values
\* included, and notifies exactly when that differs from the value it held.
C13_BarSnapsFloor ==
    [][/\ \A a \in BarAxes :
            (Quiet /\ top'.kind = "set" /\ top'.axis = a)
            => /\ drawer_value'[a] = FloorSnap(top'.arg)
               /\ emitted'[a] = IF FloorSnap(top'.arg) # drawer_value[a] THEN 1 ELSE 0
       /\ (NextPush # <<>> /\ NextPush[1] \in BarAxes)
            => /\ drawer_value'[NextPush[1]] = FloorSnap(NextPush[2])
               /\ emitted'[NextPush[1]] - emitted[NextPush[1]]
                    = IF FloorSnap(NextPush[2]) # drawer_value[NextPush[1]]
                      THEN 1 ELSE 0
    ]_vars

(***************************************************************************)
(* Reversed ranges.                                                        *)
(***************************************************************************)
\* C14: in every paint pass has_showing_data is true exactly when end > begin;
\* a pass over a range with end < begin has it false and draws no grid, no
\* tick and no drawer.
C14_ShowingDataIffEndAfterBegin ==
    \A c \in Charts :
        Passed(c)
        => /\ Truthy(PassConfig(c).has_showing_data)
                <=> PassConfig(c).end > PassConfig(c).begin
           /\ PassConfig(c).end < PassConfig(c).begin
                => Ops(c) \cap {"draw_grids", "draw_ticks", "draw"} = {}

(***************************************************************************)
(* Setting up the composite chart.                                         *)
(***************************************************************************)
\* the step is a call add_chart(c, ...) with a chart the composite already has
AddsChartAgain(c) ==
    /\ top'.kind = "add_chart" /\ top'.arg[1] = c
    /\ c \in Range(charts)

\* C15: add_chart called with a surface the composite already has changes
\* nothing: the wrappers, their number and order, every surface's paddings,
\* axis list and mouse-move handler stay as they were, and the crosshairs
\* passed in the call are neither added to an axis list nor connected.
C15_AddChartAgainIsNoOp ==
    [][\A c \in Charts :
        AddsChartAgain(c)
        => /\ sub_wrappers' = sub_wrappers
           /\ paddings' = paddings
           /\ axis_list' = axis_list
           /\ mouse_handler' = mouse_handler
           /\ connected' = connected
    ]_vars

\* C15's case: the first of two charts has been added again, with an X
\* crosshair that its axis list does not hold
C15_Witness ==
    /\ top.kind = "add_chart"
    /\ Len(sub_wrappers) = 2
    /\ top.arg[1] = sub_wrappers[1].chart
    /\ top.arg[2] # 0
    /\ top.arg[2] \notin Range(axis_list[top.arg[1]])
    /\ paddings[top.arg[1]] = <<80, 0, 10, 0>>


\* C16: the chart added last has the paddings (80, 0, 10, 20) and every chart
\* added before it has (80, 0, 10, 0), whatever add_chart calls were made.
C16_OnlyLastHasBottomPadding ==
    \A i \in Wrappers :
        paddings[sub_wrappers[i].chart] =
            IF i = Len(sub_wrappers) THEN <<80, 0, 10, 20>> ELSE <<80, 0, 10, 0>>

\* C16's case: chart 2 was added before chart 1, and add_chart was then
\* called again with chart 2
C16_Witness ==
    /\ Len(sub_wrappers) = 2
    /\ sub_wrappers[1].chart = 2
    /\ top.kind = "add_chart" /\ top.arg[1] = 2
    /\ paddings[2][4] = 0 /\ paddings[1][4] = 20


(***************************************************************************)
(* The link lists.                                                         *)
(***************************************************************************)
\* every axis in a's link list has a's orientation and is there once
LinksWellFormed(l) ==
    \A a \in Axes : \A i \in 1..Len(l[a]) :
        /\ orientation(l[a][i]) = orientation(a)
        /\ \A j \in 1..Len(l[a]) : l[a][j] = l[a][i] => j = i

\* C17: each axis in an axis's link list has that axis's orientation and is in
\* the list once; a link_to call with a target of the other orientation is
\* stopped and adds no link, and a link_to call repeated with the same pair
\* adds nothing.
C17_LinksSameOrientationOnce ==
    [][/\ LinksWellFormed(links')
       /\ (top'.kind = "link_to" /\ (~top'.applied \/ top'.rep)) => links' = links
    ]_vars

\* C17's case: link_to has been repeated with a pair of distinct axes whose
\* link stands, while another axis has a link of its own
C17_Witness ==
    /\ top.kind = "link_to" /\ top.rep /\ top.applied
    /\ top.arg[1] # top.arg[2]
    /\ Count(links[top.arg[2]], top.arg[1]) = 1
    /\ \E a \in Axes \ {top.arg[2]} : links[a] # <<>>


(***************************************************************************)
(* Registering an axis twice.                                              *)
(***************************************************************************)
\* C18: an axis registered again on a surface stays in the axis list once, and
\* a paint pass prepares it once and draws its grids and its ticks once.
C18_AxisRegisteredOnce ==
    \A c \in Charts : \A a \in AllAxes :
        /\ Count(axis_list[c], a) <= 1
        /\ \A op \in {"prepare_draw_axis", "draw_grids", "draw_ticks"} :
                Count(log[c], Ev(op, a)) <= 1


(***************************************************************************)
(* The composite chart's range calls.                                      *)
(***************************************************************************)
\* the surfaces a range call with this chart argument is meant for
MeantFor(chart) ==
    IF chart = NoChart THEN Range(charts)
    ELSE IF chart[1] = "wrapper" THEN {sub_wrappers[chart[2]].chart}
    ELSE {chart[2]}

XRangeOf(cfg) == <<cfg.begin, cfg.end>>

\* C19: set_x_range(begin, end) and scroll_x(diff) of the composite chart,
\* called without a chart, make the same call on every surface added; called
\* with a surface or its wrapper they make it on that surface and leave the
\* range of every other surface as it was; get_x_range without a chart
\* returns the range of the surface added first.
C19_RangeCallsFanOut ==
    [][/\ top'.kind = "set_x_range"
            => \A c \in Charts :
                 XRangeOf(draw_config'[c]) =
                    IF c \in MeantFor(top'.arg[1]) THEN <<top'.arg[2], top'.arg[3]>>
                    ELSE XRangeOf(draw_config[c])
       /\ top'.kind = "scroll_x"
            => \A c \in Charts :
                 XRangeOf(draw_config'[c]) =
                    IF c \in MeantFor(top'.arg[1])
                    THEN <<draw_config[c].begin + top'.arg[2],
                           draw_config[c].end + top'.arg[2]>>
                    ELSE XRangeOf(draw_config[c])
       /\ (top'.kind = "get_x_range" /\ top'.arg[1] = NoChart)
            => <<top'.arg[2], top'.arg[3]>> = XRangeOf(draw_config[sub_wrappers[1].chart])
    ]_vars

\* C19's case: with chart 2 added before chart 1, the range of the first
\* wrapper's surface has been set to (8, 3) through the wrapper while the
\* other surface keeps a range it was scrolled to
C19_Witness ==
    /\ Len(sub_wrappers) = 2 /\ sub_wrappers[1].chart = 2
    /\ top.kind = "set_x_range" /\ top.arg[1] = <<"wrapper", 1>>
    /\ XRangeOf(draw_config[2]) = <<8, 3>>
    /\ XRangeOf(draw_config[1]) = <<1, 11>>


(***************************************************************************)
(* The config within one paint pass.                                       *)
(***************************************************************************)
\* the steps of a paint pass of chart c
CopyStep(c) == ~painting[c] /\ painting'[c]
PrepareStep(c) == in_hand[c] = <<>> /\ in_hand'[c] # <<>>
DrawStep(c) == in_hand[c] # <<>> /\ in_hand'[c] = <<>>

\* the drawing cache of config k is the one built from k's own range and Y
\* range, with both areas and both transforms
CacheOf(c, k) ==
    /\ k.drawing_cache # <<>>
    /\ k.drawing_cache[1].drawer_area = drawer_area(k)
    /\ k.drawing_cache[1].plot_area = plot_area(c)
    /\ k.drawing_cache[1].drawer_transform
            = drawer_transform(drawer_area(k), plot_area(c))
    /\ k.drawing_cache[1].ui_transform
            = Inverted(drawer_transform(drawer_area(k), plot_area(c))).t

\* C20: in a paint pass the config is resolved before any axis or drawer is
\* called: while has_showing_data, the Y range and the drawing cache are
\* written nothing is drawn, every call of the pass is then made with that
\* one resolved config, and the config the surface held when the pass began
\* is not written: the pass works on a copy and puts it in place of the held
\* config at its end.
C20_ResolvedCopyBeforeDrawing ==
    [][\A c \in Charts :
        /\ CopyStep(c)
            => /\ frame'[c] = draw_config[c]
               /\ draw_config'[c] = draw_config[c]
               /\ log'[c] = log[c]
        /\ PrepareStep(c)
            => /\ in_hand'[c][1].begin = frame[c].begin
               /\ in_hand'[c][1].end = frame[c].end
               /\ CacheOf(c, in_hand'[c][1])
               /\ draw_config'[c] = draw_config[c]
               /\ log'[c] = log[c]
        /\ DrawStep(c)
            => /\ pass'[c].status = "painted"
               /\ pass'[c].config = in_hand[c]
               /\ log'[c] = paint_events(c, in_hand[c][1])
               /\ \A a \in Range(axises(c)) \cap Axes : last_config'[a] = in_hand[c]
               /\ draw_config'[c] = in_hand[c][1]
    ]_vars

\* C20's case: in the first pass of a chart with drawers that have data the
\* copy is resolved, with a scaled Y range and a drawing cache, while the
\* held config still has the default Y range and no drawing cache
C20_Witness ==
    \E c \in Charts :
        /\ painting[c] /\ in_hand[c] # <<>>
        /\ DataDrawers(c) # {}
        /\ axis_list[c] # <<>>
        /\ in_hand[c][1].y_low # R(DefaultYLow)
        /\ Truthy(in_hand[c][1].has_showing_data)
        /\ draw_config[c].drawing_cache = <<>>
        /\ draw_config[c].y_low = R(DefaultYLow)
        /\ draw_config[c].has_showing_data = 0


(***************************************************************************)
(* The config a crosshair remembers.                                       *)
(***************************************************************************)
\* crosshair axis a is registered on chart c and on no other chart
CrossHairOf(a, c) ==
    /\ a \in Range(axis_list[c])
    /\ \A x \in Charts \ {c} : a \notin Range(axis_list[x])

\* C21: after a completed paint pass of a surface every crosshair axis
\* registered on it remembers a config with the drawing cache of the config
\* the surface holds, so that set_value_by_ui_pos converts through the cache
\* of that pass, also when the crosshair was hidden before the pass.
C21_CrossHairSeesLastCache ==
    \A c \in Charts : \A a \in Axes :
        (pass[c].status = "painted" /\ CrossHairOf(a, c))
        => /\ last_config[a] # <<>>
           /\ last_config[a][1].drawing_cache = draw_config[c].drawing_cache


(***************************************************************************)
(* The painter's coordinate space.                                         *)
(***************************************************************************)
RECURSIVE PainterSpace(_, _)
\* the space the painter is in after the first n calls of the sequence l: a
\* new painter is in UI space, setWorldTransform with the drawer transform
\* puts it in drawer space, setWorldMatrixEnabled(False) back in UI space
PainterSpace(l, n) ==
    IF n = 0 THEN "ui"
    ELSE IF l[n].op = "setWorldTransform" THEN "drawer"
    ELSE IF l[n].op = "setWorldMatrixEnabled(False)" THEN "ui"
    ELSE PainterSpace(l, n - 1)

\* C22: in every paint pass the painter is in UI space when the plot border
\* is drawn and when the pass returns, and in drawer space at every draw call
\* of a drawer, whatever the drawers and the range.
C22_PainterBackInUiSpace ==
    \A c \in Charts :
        pass[c].status = "painted"
        => /\ PainterSpace(log[c], Len(log[c])) = "ui"
           /\ \A n \in 1..Len(log[c]) :
                /\ log[c][n].op = "border" => PainterSpace(log[c], n - 1) = "ui"
                /\ log[c][n].op = "draw" => PainterSpace(log[c], n - 1) = "drawer"

\* C22's case: a pass over a non-empty range has drawn a drawer with data,
\* skipped one without, and drawn the border
C22_Witness ==
    \E c \in Charts :
        /\ pass[c].status = "painted"
        /\ Len(drawers[c]) = 2 /\ DataDrawers(c) # {}
        /\ \E i \in 1..2 : ~drawers[c][i].has_data
        /\ {"draw", "border"} \subseteq Ops(c)
        /\ PassConfig(c).end > PassConfig(c).begin


(***************************************************************************)
(* Agreement after a cascade.                                              *)
(***************************************************************************)
\* C23 as stated: when a top-level update of a plain axis S to v has
\* finished, every plain axis reachable from S over link lists holds v, and no
\* axis notified more than once (an axis notifies once per change of value),
\* whatever the link graph.
C23_ReachableAgreeAlways ==
    \A S \in Axes :
        (FinishedSet /\ top.axis = S /\ ~Snapping(S))
        => /\ \A a \in Reach(S) : ~Snapping(a) => drawer_value[a] = top.arg
           /\ \A a \in Axes : emitted[a] <= 1

\* the axes a cascade enters and changes when the axes of H hold the value
\* already: it starts from the axes of L and follows the link lists, and stops
\* at every axis of H
RECURSIVE Carried(_, _)
Carried(L, H) ==
    IF Succ(L) \ H \subseteq L THEN L ELSE Carried(L \cup (Succ(L) \ H), H)

\* C23 amended: a cascade stops at every axis that holds the value already.
\* When a top-level update of S to v has finished and every axis reachable
\* from S over link lists is plain, then every axis that S reaches over link
\* lists through axes that did not hold v before the call, S included, holds v
\* and notified exactly once, and no other axis notified; diamonds and cycles
\* in the link graph included.  An axis behind one that held v keeps its value.
C23_CascadeAgreement ==
    \A S \in Axes :
        (FinishedSet /\ top.axis = S /\ PlainFrom(S))
        => LET L == IF S \in top.held THEN {} ELSE Carried({S}, top.held)
           IN  /\ \A a \in L : drawer_value[a] = top.arg /\ emitted[a] = 1
               /\ \A a \in Reach(S) \cap top.held : drawer_value[a] = top.arg
               /\ \A a \in Axes \ L : emitted[a] = 0

\* a finished cascade over a diamond closed into a cycle: 1 pushes into 3 and
\* 5, both push into 6, 6 pushes back into 1, and all four changed once
C23_Witness ==
    /\ FinishedSet /\ top.axis = 1 /\ PlainFrom(1) /\ top.arg # R(0)
    /\ {3, 5} \subseteq Range(links[1])
    /\ 6 \in Range(links[3]) /\ 6 \in Range(links[5])
    /\ 1 \in Range(links[6])
    /\ \A a \in {1, 3, 5, 6} : emitted[a] = 1 /\ drawer_value[a] = top.arg


(***************************************************************************)
(* The persisted range across a paint pass.                                *)
(***************************************************************************)
\* the step ends a paint pass of surface c
EndsPass(c) == painting[c] /\ ~painting'[c]

\* C24: a range set by set_x_range(b, e) is never lost.  The end of a paint
\* pass is no range-changing call, so it leaves the persisted begin and end of
\* the surface as they are, also when set_x_range was called after the pass
\* took its copy of the configuration.
C24_RangeSurvivesPass ==
    [][\A c \in Charts :
          EndsPass(c) => XRangeOf(draw_config'[c]) = XRangeOf(draw_config[c])]_vars

====
